---- MODULE Spec2Model ----
(***************************************************************************)
(* SqueezeNext (gluon/models/squeezenext.py): the layer configuration the  *)
(* constructors build and the tensor shapes the forward pass produces.     *)
(*                                                                         *)
(* A float width scale is held as a numerator over WidthDen.  Every base   *)
(* channel count of the program is a power of two, so the float product    *)
(* width_x * base is the exact scaling of the float width_x, and int()     *)
(* of it equals the integer quotient (num * base) \div WidthDen: the       *)
(* quotient is an integer only when num / WidthDen is a multiple of 1/2,   *)
(* which a float holds exactly.                                            *)
(***************************************************************************)
EXTENDS Integers, Sequences, FiniteSets, TLC

VARIABLES
    pc,            \* position of the program
    call,          \* the arguments of the factory call being served
    ctor,          \* the arguments of SqueezeNext.__init__
    err,           \* the exception raised, or NoErr
    ctor_entered,  \* SqueezeNext.__init__ has been entered
    in_channels,   \* local of SqueezeNext.__init__ (unscaled running width)
    i, j,          \* loop indices of SqueezeNext.__init__ (0-based)
    stage,         \* the HybridSequential of the stage being built
    features,      \* self.features
    output,        \* self.output
    blk,           \* a SqnxtBlock built on its own
    reduction_den, \* local of SqnxtBlock.__init__ for blk
    input,         \* the shape handed to hybrid_forward
    x,             \* the tensor shape travelling through the forward pass
    fpos,          \* index of the next child of features / output to apply
    bpos,          \* index of the next block of the stage being applied
    adds,          \* operand shapes of the residual additions done so far
    path           \* shortcut branches taken by the forward pass so far

vars == <<pc, call, ctor, err, ctor_entered, in_channels, i, j, stage,
          features, output, blk, reduction_den, input, x, fpos, bpos, adds,
          path>>

---------------------------------------------------------------------------
(* Bounds of the model *)

MaxWidthNum == 20      \* width scales 1/WidthDen .. MaxWidthNum/WidthDen
MaxBlocks == 2         \* block counts 0 .. MaxBlocks in a direct construction
MaxChannels == 12      \* channel counts of a SqnxtBlock built on its own
MaxStride == 3         \* strides of a SqnxtBlock built on its own

WidthDen == 10

NoErr == "none"
NoLayer == [type |-> "none"]
NoCall == [fn |-> "none"]
BadShape == <<>>

DefaultClasses == 1000
ClassesArgs == {DefaultClasses, 10}

Widths == 1..MaxWidthNum
ArchTypes == {"23", "23v5", "23v4", ""}
BlockLists == [1..4 -> 0..MaxBlocks]

\* the scales the six factories pass (1.0, 1.5, 2.0)
Scale_1_0 == WidthDen
Scale_1_5 == (3 * WidthDen) \div 2
Scale_2_0 == 2 * WidthDen

---------------------------------------------------------------------------
(* Arithmetic of the program *)

\* round(width_x * c), halves away from zero (all products are >= 0)
RoundScale(width_x, c) == (2 * width_x * c + WidthDen) \div (2 * WidthDen)

\* int(width_x * c): truncation of the float product
IntScale(width_x, c) == (width_x * c) \div WidthDen

Pair(v) == <<v, v>>

CeilDiv(a, b) == (a + b - 1) \div b

---------------------------------------------------------------------------
(* SqnxtConv *)

SqnxtConv(in, out, kernel_size, strides, padding) ==
    [type |-> "conv",
     in_channels |-> in,
     out_channels |-> out,
     kernel_size |-> kernel_size,
     strides |-> strides,
     padding |-> padding,
     bn_channels |-> out]

\* Conv2D -> BatchNorm -> relu on a shape <<N, C, H, W>>
SqnxtConvForward(c, s) ==
    IF s = BadShape THEN BadShape
    ELSE IF c.in_channels = 0 \/ c.out_channels = 0 THEN BadShape
    ELSE IF s[2] # c.in_channels THEN BadShape
    ELSE IF s[3] + 2 * c.padding[1] < c.kernel_size[1] THEN BadShape
    ELSE IF s[4] + 2 * c.padding[2] < c.kernel_size[2] THEN BadShape
    ELSE IF c.bn_channels # c.out_channels THEN BadShape
    ELSE <<s[1],
           c.out_channels,
           ((s[3] + 2 * c.padding[1] - c.kernel_size[1]) \div c.strides) + 1,
           ((s[4] + 2 * c.padding[2] - c.kernel_size[2]) \div c.strides) + 1>>

---------------------------------------------------------------------------
(* SqnxtBlock *)

ReductionDenSwapped(in, out, strides) ==
    IF in > out THEN 4
    ELSE IF strides = 2 THEN 1
    ELSE 2

ReductionDen(in, out, strides) ==
    IF strides = 2 THEN 1
    ELSE IF in > out THEN 4
    ELSE 2

ReduceChannelsOnly(in, out, strides) == in > out

Reduce(in, out, strides) ==
    IF strides = 2 THEN TRUE
    ELSE IF in > out THEN TRUE
    ELSE FALSE

BlockConvsNarrow(in, out, strides, den) ==
    [conv1 |-> SqnxtConv(in, in \div den, Pair(1), strides, Pair(0)),
     conv2 |-> SqnxtConv(in \div den, in \div (2 * den), Pair(1), 1, Pair(0)),
     conv3 |-> SqnxtConv(in \div (2 * den), in \div (2 * den), <<1, 3>>, 1, <<0, 1>>),
     conv4 |-> SqnxtConv(in \div (2 * den), in \div (2 * den), <<3, 1>>, 1, <<1, 0>>),
     conv5 |-> SqnxtConv(in \div (2 * den), out, Pair(1), 1, Pair(0))]

BlockConvs(in, out, strides, den) ==
    [conv1 |-> SqnxtConv(in, in \div den, Pair(1), strides, Pair(0)),
     conv2 |-> SqnxtConv(in \div den, in \div (2 * den), Pair(1), 1, Pair(0)),
     conv3 |-> SqnxtConv(in \div (2 * den), in \div den, <<1, 3>>, 1, <<0, 1>>),
     conv4 |-> SqnxtConv(in \div den, in \div den, <<3, 1>>, 1, <<1, 0>>),
     conv5 |-> SqnxtConv(in \div den, out, Pair(1), 1, Pair(0))]

SqnxtBlock(in, out, strides) ==
    LET den == ReductionDen(in, out, strides)
        reduce == Reduce(in, out, strides)
        convs == BlockConvs(in, out, strides, den)
    IN  [type |-> "block",
         reduce |-> reduce,
         conv1 |-> convs.conv1,
         conv2 |-> convs.conv2,
         conv3 |-> convs.conv3,
         conv4 |-> convs.conv4,
         conv5 |-> convs.conv5,
         shortcut |-> IF reduce
                      THEN SqnxtConv(in, out, Pair(1), strides, Pair(0))
                      ELSE NoLayer]

\* x + y on NDArrays broadcasts: axes agree or one of them is 1
Max(a, b) == IF a >= b THEN a ELSE b

BroadcastAdd(a, b) ==
    IF a = BadShape \/ b = BadShape THEN BadShape
    ELSE IF \A k \in 1..4 : a[k] = b[k] \/ a[k] = 1 \/ b[k] = 1
         THEN [k \in 1..4 |-> Max(a[k], b[k])]
         ELSE BadShape

\* the five-unit chain of hybrid_forward
BlockChain(b, s) ==
    SqnxtConvForward(b.conv5,
      SqnxtConvForward(b.conv4,
        SqnxtConvForward(b.conv3,
          SqnxtConvForward(b.conv2,
            SqnxtConvForward(b.conv1, s)))))

\* the branch hybrid_forward takes for the shortcut
BlockBranch(b) == IF b.reduce THEN "shortcut" ELSE "activ"

\* the second operand of the residual addition
BlockShortcut(b, s) ==
    IF BlockBranch(b) = "shortcut"
    THEN SqnxtConvForward(b.shortcut, s)
    ELSE s

SqnxtBlockForward(b, s) == BroadcastAdd(BlockChain(b, s), BlockShortcut(b, s))

---------------------------------------------------------------------------
(* Pooling, Flatten, Dense *)

MaxPool2D(pool_size, strides, ceil_mode) ==
    [type |-> "pool", pool_size |-> pool_size, strides |-> strides,
     ceil_mode |-> ceil_mode]

\* AvgPool2D(pool_size): strides default to pool_size, floor sizing
AvgPool2D(pool_size) ==
    [type |-> "pool", pool_size |-> pool_size, strides |-> pool_size,
     ceil_mode |-> FALSE]

Flatten == [type |-> "flatten"]

Dense(units, in_units) ==
    [type |-> "dense", units |-> units, in_units |-> in_units]

PoolOut(p, n) ==
    IF p.ceil_mode
    THEN CeilDiv(n - p.pool_size, p.strides) + 1
    ELSE ((n - p.pool_size) \div p.strides) + 1

PoolForward(p, s) ==
    IF s = BadShape THEN BadShape
    ELSE IF s[3] < p.pool_size \/ s[4] < p.pool_size THEN BadShape
    ELSE <<s[1], s[2], PoolOut(p, s[3]), PoolOut(p, s[4])>>

FlattenForward(s) ==
    IF s = BadShape THEN BadShape
    ELSE <<s[1], s[2] * s[3] * s[4]>>

DenseForward(d, s) ==
    IF s = BadShape THEN BadShape
    ELSE IF s[2] # d.in_units THEN BadShape
    ELSE <<s[1], d.units>>

\* one child of self.features (not a stage) or of self.output
ChildForward(c, s) ==
    CASE c.type = "conv" -> SqnxtConvForward(c, s)
      [] c.type = "pool" -> PoolForward(c, s)
      [] c.type = "flatten" -> FlattenForward(s)
      [] c.type = "dense" -> DenseForward(c, s)

---------------------------------------------------------------------------
(* SqueezeNext.__init__ *)

input_channels == 3
init_in_channels == 64
out_channels_per_stage == <<32, 64, 128, 256>>
strides_per_stage == <<1, 2, 2, 2>>
final_channels == 128

\* [1] * n
Ones(n) == [k \in 1..Max(0, n) |-> 1]

StridesIAllStage(ii, blocks) ==
    <<strides_per_stage[ii + 1]>> \o
        [k \in 1..Max(0, blocks[ii + 1] - 1) |-> strides_per_stage[ii + 1]]

\* strides_i = [strides_per_stage[i]] + [1] * (blocks[i] - 1)
StridesI(ii, blocks) ==
    <<strides_per_stage[ii + 1]>> \o Ones(blocks[ii + 1] - 1)

NextInChannelsStale(jj, ii, cur, width_x) == cur

NextInChannelsScaled(jj, ii, cur, width_x) ==
    IF jj = 0 THEN IntScale(width_x, out_channels_per_stage[ii + 1]) ELSE cur

\* if j == 0: in_channels = out_channels_per_stage[i]
NextInChannels(jj, ii, cur, width_x) ==
    IF jj = 0 THEN out_channels_per_stage[ii + 1] ELSE cur

StemConv(width_x) ==
    SqnxtConv(input_channels, IntScale(width_x, init_in_channels),
              Pair(7), 2, Pair(1))

StageBlock(width_x, cur, ii, strides) ==
    SqnxtBlock(IntScale(width_x, cur),
               IntScale(width_x, out_channels_per_stage[ii + 1]),
               strides)

FinalConvWide(width_x, cur) ==
    SqnxtConv(IntScale(width_x, cur), IntScale(width_x, 2 * final_channels),
              Pair(1), 1, Pair(0))

FinalConv(width_x, cur) ==
    SqnxtConv(IntScale(width_x, cur), IntScale(width_x, final_channels),
              Pair(1), 1, Pair(0))

OutputHead(width_x, classes) ==
    <<AvgPool2D(7), Flatten, Dense(classes, IntScale(width_x, final_channels))>>

CtorUnchanged == UNCHANGED <<blk, reduction_den, input, x, fpos, bpos, adds, path>>

\* entry of the constructor and the stem ConvUnit (lines 114-127)
EnterSqueezeNext(width_x, blocks, classes) ==
    /\ ctor' = [width_x |-> width_x, blocks |-> blocks, classes |-> classes]
    /\ ctor_entered' = TRUE
    /\ in_channels' = init_in_channels
    /\ features' = <<StemConv(width_x)>>
    /\ pc' = "pool"
    /\ UNCHANGED <<err, i, j, stage, output>>
    /\ CtorUnchanged

\* SqueezeNext(width_x, blocks) called directly, classes left at its default
SqueezeNext ==
    /\ pc = "idle"
    /\ \E width_x \in Widths, blocks \in BlockLists :
        /\ call' = [fn |-> "SqueezeNext"]
        /\ EnterSqueezeNext(width_x, blocks, DefaultClasses)

\* self.features.add(nn.MaxPool2D(...)) and entry of the stage loop
AddMaxPool ==
    /\ pc = "pool"
    /\ features' = Append(features, MaxPool2D(3, 2, TRUE))
    /\ i' = 0
    /\ pc' = "stages"
    /\ UNCHANGED <<call, ctor, err, ctor_entered, in_channels, j, stage, output>>
    /\ CtorUnchanged

\* stage = nn.HybridSequential(); strides_i = ...
StageBegin ==
    /\ pc = "stages"
    /\ i < Len(ctor.blocks)
    /\ stage' = <<>>
    /\ j' = 0
    /\ pc' = "blocks"
    /\ UNCHANGED <<call, ctor, err, ctor_entered, in_channels, i, features, output>>
    /\ CtorUnchanged

\* one iteration of the inner loop
StageAddBlock ==
    /\ pc = "blocks"
    /\ j < Len(StridesI(i, ctor.blocks))
    /\ stage' = Append(stage, StageBlock(ctor.width_x, in_channels, i,
                                         StridesI(i, ctor.blocks)[j + 1]))
    /\ in_channels' = NextInChannels(j, i, in_channels, ctor.width_x)
    /\ j' = j + 1
    /\ UNCHANGED <<pc, call, ctor, err, ctor_entered, i, features, output>>
    /\ CtorUnchanged

\* self.features.add(stage)
StageEnd ==
    /\ pc = "blocks"
    /\ j >= Len(StridesI(i, ctor.blocks))
    /\ features' = Append(features, [type |-> "stage", blocks |-> stage])
    /\ i' = i + 1
    /\ pc' = "stages"
    /\ UNCHANGED <<call, ctor, err, ctor_entered, in_channels, j, stage, output>>
    /\ CtorUnchanged

\* the final ConvUnit and the head (lines 144-154)
AddFinalAndOutput ==
    /\ pc = "stages"
    /\ i >= Len(ctor.blocks)
    /\ features' = Append(features, FinalConv(ctor.width_x, in_channels))
    /\ output' = OutputHead(ctor.width_x, ctor.classes)
    /\ pc' = "built"
    /\ UNCHANGED <<call, ctor, err, ctor_entered, in_channels, i, j, stage>>
    /\ CtorUnchanged

---------------------------------------------------------------------------
(* get_squeezenext and the six factories *)

NoBlocks == <<>>

ArchBlocksDefault23(arch_type) ==
    IF arch_type = "23v5" THEN <<2, 4, 14, 1>> ELSE <<6, 6, 8, 1>>

ArchBlocks(arch_type) ==
    IF arch_type = "23" THEN <<6, 6, 8, 1>>
    ELSE IF arch_type = "23v5" THEN <<2, 4, 14, 1>>
    ELSE NoBlocks

GetOutcomeNoPretrainedCheck(arch_type, pretrained) ==
    IF ArchBlocks(arch_type) = NoBlocks THEN "ValueError" ELSE NoErr

\* the exception get_squeezenext raises, if any
GetOutcome(arch_type, pretrained) ==
    IF ArchBlocks(arch_type) = NoBlocks THEN "ValueError"
    ELSE IF pretrained THEN "ValueError"
    ELSE NoErr

get_squeezenext(fn, arch_type, scale, pretrained, classes) ==
    /\ pc = "idle"
    /\ call' = [fn |-> fn, arch_type |-> arch_type, scale |-> scale,
                pretrained |-> pretrained, classes |-> classes]
    /\ IF GetOutcome(arch_type, pretrained) # NoErr
       THEN /\ pc' = "raised"
            /\ err' = GetOutcome(arch_type, pretrained)
            /\ UNCHANGED <<ctor, ctor_entered, in_channels, i, j, stage,
                           features, output>>
            /\ CtorUnchanged
       ELSE EnterSqueezeNext(scale, ArchBlocks(arch_type), classes)

CallGetSqueezenext ==
    \E arch_type \in ArchTypes, scale \in Widths, pretrained \in BOOLEAN,
       classes \in ClassesArgs :
        get_squeezenext("get_squeezenext", arch_type, scale, pretrained, classes)

sqnxt23_1_0 ==
    \E pretrained \in BOOLEAN, classes \in ClassesArgs :
        get_squeezenext("sqnxt23_1_0", "23", Scale_1_0, pretrained, classes)

sqnxt23_1_5 ==
    \E pretrained \in BOOLEAN, classes \in ClassesArgs :
        get_squeezenext("sqnxt23_1_5", "23", Scale_1_5, pretrained, classes)

sqnxt23_2_0 ==
    \E pretrained \in BOOLEAN, classes \in ClassesArgs :
        get_squeezenext("sqnxt23_2_0", "23", Scale_2_0, pretrained, classes)

sqnxt23v5_1_0 ==
    \E pretrained \in BOOLEAN, classes \in ClassesArgs :
        get_squeezenext("sqnxt23v5_1_0", "23v5", Scale_1_0, pretrained, classes)

sqnxt23v5_1_5 ==
    \E pretrained \in BOOLEAN, classes \in ClassesArgs :
        get_squeezenext("sqnxt23v5_1_5", "23v5", Scale_1_5, pretrained, classes)

sqnxt23v5_2_0 ==
    \E pretrained \in BOOLEAN, classes \in ClassesArgs :
        get_squeezenext("sqnxt23v5_2_0", "23v5", Scale_2_0, pretrained, classes)

---------------------------------------------------------------------------
(* SqueezeNext.hybrid_forward *)

InputSizes == {224, 448}

FwdUnchanged ==
    UNCHANGED <<call, ctor, ctor_entered, in_channels, i, j, stage, features,
                output, blk, reduction_den>>

\* net(input) on a built network
hybrid_forward ==
    /\ pc = "built"
    /\ \E size \in InputSizes :
        /\ input' = <<1, input_channels, size, size>>
        /\ x' = <<1, input_channels, size, size>>
    /\ fpos' = 1
    /\ bpos' = 1
    /\ pc' = "features"
    /\ UNCHANGED <<err, adds, path>>
    /\ FwdUnchanged

\* a child of self.features that is a ConvUnit or the max-pool
FeaturesChild ==
    /\ pc = "features"
    /\ fpos <= Len(features)
    /\ features[fpos].type # "stage"
    /\ LET y == ChildForward(features[fpos], x)
       IN  IF y = BadShape
           THEN /\ pc' = "failed"
                /\ err' = "MXNetError"
                /\ UNCHANGED <<x, fpos>>
           ELSE /\ x' = y
                /\ fpos' = fpos + 1
                /\ UNCHANGED <<pc, err>>
    /\ UNCHANGED <<input, bpos, adds, path>>
    /\ FwdUnchanged

\* SqnxtBlock.hybrid_forward of the next block of a stage
FeaturesStageBlock ==
    /\ pc = "features"
    /\ fpos <= Len(features)
    /\ features[fpos].type = "stage"
    /\ LET blocks == features[fpos].blocks
           b == blocks[bpos]
           chain == BlockChain(b, x)
           shortcut == BlockShortcut(b, x)
           y == BroadcastAdd(chain, shortcut)
       IN  IF chain = BadShape
           THEN /\ pc' = "failed"
                /\ err' = "MXNetError"
                /\ UNCHANGED <<x, fpos, bpos, adds, path>>
           ELSE /\ path' = Append(path, BlockBranch(b))
                /\ adds' = Append(adds, <<chain, shortcut>>)
                /\ IF y = BadShape
                   THEN /\ pc' = "failed"
                        /\ err' = "MXNetError"
                        /\ UNCHANGED <<x, fpos, bpos>>
                   ELSE /\ x' = y
                        /\ IF bpos >= Len(blocks)
                           THEN fpos' = fpos + 1 /\ bpos' = 1
                           ELSE fpos' = fpos /\ bpos' = bpos + 1
                        /\ UNCHANGED <<pc, err>>
    /\ UNCHANGED input
    /\ FwdUnchanged

\* x = self.output(x)
EnterOutput ==
    /\ pc = "features"
    /\ fpos > Len(features)
    /\ pc' = "output"
    /\ fpos' = 1
    /\ UNCHANGED <<err, input, x, bpos, adds, path>>
    /\ FwdUnchanged

\* a child of self.output: average pool, flatten, dense
OutputChild ==
    /\ pc = "output"
    /\ fpos <= Len(output)
    /\ LET y == ChildForward(output[fpos], x)
       IN  IF y = BadShape
           THEN /\ pc' = "failed"
                /\ err' = "MXNetError"
                /\ UNCHANGED <<x, fpos>>
           ELSE /\ x' = y
                /\ fpos' = fpos + 1
                /\ UNCHANGED <<pc, err>>
    /\ UNCHANGED <<input, bpos, adds, path>>
    /\ FwdUnchanged

\* return x
ForwardReturn ==
    /\ pc = "output"
    /\ fpos > Len(output)
    /\ pc' = "done"
    /\ UNCHANGED <<err, input, x, fpos, bpos, adds, path>>
    /\ FwdUnchanged

---------------------------------------------------------------------------
(* A SqnxtBlock built and applied on its own *)

BlockInputSizes == {7, 8}

NewSqnxtBlock ==
    /\ pc = "block_idle"
    /\ \E in \in 1..MaxChannels, out \in 1..MaxChannels, strides \in 1..MaxStride :
        /\ call' = [fn |-> "SqnxtBlock", in_channels |-> in,
                    out_channels |-> out, strides |-> strides]
        /\ reduction_den' = ReductionDen(in, out, strides)
        /\ blk' = SqnxtBlock(in, out, strides)
    /\ pc' = "block_built"
    /\ UNCHANGED <<ctor, err, ctor_entered, in_channels, i, j, stage, features,
                   output, input, x, fpos, bpos, adds, path>>

BlockHybridForward ==
    /\ pc = "block_built"
    /\ \E size \in BlockInputSizes :
        LET s == <<1, call.in_channels, size, size>>
            chain == BlockChain(blk, s)
            shortcut == BlockShortcut(blk, s)
            y == BroadcastAdd(chain, shortcut)
        IN  /\ input' = s
            /\ IF chain = BadShape
               THEN /\ pc' = "block_failed"
                    /\ err' = "MXNetError"
                    /\ UNCHANGED <<x, adds, path>>
               ELSE /\ path' = Append(path, BlockBranch(blk))
                    /\ adds' = Append(adds, <<chain, shortcut>>)
                    /\ IF y = BadShape
                       THEN /\ pc' = "block_failed"
                            /\ err' = "MXNetError"
                            /\ UNCHANGED x
                       ELSE /\ pc' = "block_done"
                            /\ x' = y
                            /\ UNCHANGED err
    /\ UNCHANGED <<call, ctor, ctor_entered, in_channels, i, j, stage, features,
                   output, blk, reduction_den, fpos, bpos>>

---------------------------------------------------------------------------
(* Specifications *)

InitCommon ==
    /\ call = NoCall
    /\ ctor = NoCall
    /\ err = NoErr
    /\ ctor_entered = FALSE
    /\ in_channels = 0
    /\ i = 0
    /\ j = 0
    /\ stage = <<>>
    /\ features = <<>>
    /\ output = <<>>
    /\ blk = NoLayer
    /\ reduction_den = 0
    /\ input = BadShape
    /\ x = BadShape
    /\ fpos = 1
    /\ bpos = 1
    /\ adds = <<>>
    /\ path = <<>>

Init == pc = "idle" /\ InitCommon

Next ==
    \/ CallGetSqueezenext
    \/ sqnxt23_1_0
    \/ sqnxt23_1_5
    \/ sqnxt23_2_0
    \/ sqnxt23v5_1_0
    \/ sqnxt23v5_1_5
    \/ sqnxt23v5_2_0
    \/ SqueezeNext
    \/ AddMaxPool
    \/ StageBegin
    \/ StageAddBlock
    \/ StageEnd
    \/ AddFinalAndOutput
    \/ hybrid_forward
    \/ FeaturesChild
    \/ FeaturesStageBlock
    \/ EnterOutput
    \/ OutputChild
    \/ ForwardReturn

Spec == Init /\ [][Next]_vars

InitBlock == pc = "block_idle" /\ InitCommon

NextBlock ==
    \/ NewSqnxtBlock
    \/ BlockHybridForward

SpecBlock == InitBlock /\ [][NextBlock]_vars

---------------------------------------------------------------------------
(* Vocabulary of the properties *)

Factories == {"sqnxt23_1_0", "sqnxt23_1_5", "sqnxt23_2_0",
              "sqnxt23v5_1_0", "sqnxt23v5_1_5", "sqnxt23v5_2_0"}

GetFns == Factories \cup {"get_squeezenext"}

\* the constructor has returned
BuiltPcs == {"built", "features", "output", "done", "failed"}

BlockPcs == {"block_built", "block_done", "block_failed"}

\* c = int(w * base), stated without the program's arithmetic
IsTruncated(c, w, base) ==
    /\ c * WidthDen <= w * base
    /\ w * base < (c + 1) * WidthDen

\* the blocks of stage k (1..4) of a built network
StageBlocks(k) == features[k + 2].blocks

BlockIn(b) == b.conv1.in_channels
BlockOut(b) == b.conv5.out_channels
BlockStride(b) == b.conv1.strides

\* the channel-carrying units of a built network, in forward order
Units ==
    <<features[1]>> \o StageBlocks(1) \o StageBlocks(2) \o StageBlocks(3)
        \o StageBlocks(4) \o <<features[7]>>

UnitIn(u) == IF u.type = "block" THEN BlockIn(u) ELSE u.in_channels
UnitOut(u) == IF u.type = "block" THEN BlockOut(u) ELSE u.out_channels

AllBlocks == StageBlocks(1) \o StageBlocks(2) \o StageBlocks(3) \o StageBlocks(4)

SupportedCall ==
    /\ call.fn \in GetFns
    /\ call.arch_type \in {"23", "23v5"}
    /\ call.scale \in {Scale_1_0, Scale_1_5, Scale_2_0}
    /\ ~call.pretrained

---------------------------------------------------------------------------
(* Properties *)

\* C1: for every supported tag and scale, the forward pass on a
\* (1,3,224,224) input never fails and returns shape (1, num_classes); every
\* residual addition has equal-shaped operands, the pooled map is 1x1 and the
\* flattened length is the dense layer's declared input size.
C1_ForwardShape ==
    (SupportedCall /\ input = <<1, 3, 224, 224>>) =>
        /\ pc \in {"features", "output", "done"}
        /\ \A k \in 1..Len(adds) : adds[k][1] = adds[k][2]
        /\ (pc = "output" /\ fpos = 2) => (x[3] = 1 /\ x[4] = 1)
        /\ (pc = "output" /\ fpos = 3) => x[2] = output[3].in_units
        /\ pc = "done" => x = <<1, call.classes>>

C1_Witness ==
    /\ pc = "done"
    /\ call.fn = "sqnxt23_1_5"
    /\ input = <<1, 3, 224, 224>>
    /\ x = <<1, 1000>>
    /\ Len(adds) = 21

\* C2: with pretrained false, tag "23" builds a network with block counts
\* [6,6,8,1], tag "23v5" one with [2,4,14,1], and any other tag raises
\* ValueError and builds nothing.
C2_ArchBlocks ==
    (call.fn \in GetFns /\ ~call.pretrained) =>
        /\ call.arch_type = "23" =>
            /\ pc # "raised"
            /\ ctor_entered
            /\ ctor.blocks = <<6, 6, 8, 1>>
            /\ pc \in BuiltPcs =>
                  [k \in 1..4 |-> Len(StageBlocks(k))] = <<6, 6, 8, 1>>
        /\ call.arch_type = "23v5" =>
            /\ pc # "raised"
            /\ ctor_entered
            /\ ctor.blocks = <<2, 4, 14, 1>>
            /\ pc \in BuiltPcs =>
                  [k \in 1..4 |-> Len(StageBlocks(k))] = <<2, 4, 14, 1>>
        /\ call.arch_type \notin {"23", "23v5"} =>
            /\ pc = "raised"
            /\ err = "ValueError"
            /\ ~ctor_entered
            /\ ctor = NoCall
            /\ features = <<>>
            /\ output = <<>>

C2_Witness ==
    /\ pc = "raised"
    /\ call.fn = "get_squeezenext"
    /\ ~call.pretrained
    /\ call.arch_type = "23v4"
    /\ err = "ValueError"

\* C3: pretrained=true, through get_squeezenext or any of the six factories,
\* always raises ValueError; the constructor is never entered and no network
\* exists.
C3_PretrainedRejected ==
    (call.fn \in GetFns /\ call.pretrained) =>
        /\ pc = "raised"
        /\ err = "ValueError"
        /\ ~ctor_entered
        /\ ctor = NoCall
        /\ features = <<>>
        /\ output = <<>>

C3_Witness ==
    /\ pc = "raised"
    /\ call.fn = "sqnxt23v5_2_0"
    /\ call.pretrained
    /\ err = "ValueError"

\* C4: the reduction denominator of a block is 1 when stride is 2 whatever the
\* channels, else 4 when in_channels > out_channels, else 2; it is in {1,2,4}
\* and it is the divisor of the first unit's width.
C4_ReductionDen ==
    pc \in BlockPcs =>
        /\ call.strides = 2 => reduction_den = 1
        /\ (call.strides # 2 /\ call.in_channels > call.out_channels) =>
              reduction_den = 4
        /\ (call.strides # 2 /\ call.in_channels <= call.out_channels) =>
              reduction_den = 2
        /\ reduction_den \in {1, 2, 4}
        /\ blk.conv1.out_channels * reduction_den <= call.in_channels
        /\ call.in_channels < (blk.conv1.out_channels + 1) * reduction_den

C4_Witness ==
    /\ pc = "block_built"
    /\ call.strides = 2
    /\ call.in_channels > call.out_channels
    /\ reduction_den = 1

\* C5: a block has the projection shortcut (1x1 ConvUnit in -> out with the
\* block's stride) exactly when stride is 2 or in_channels > out_channels,
\* and otherwise no shortcut unit; the forward pass takes the branch chosen
\* at construction.
C5_ProjectionShortcut ==
    pc \in BlockPcs =>
        LET proj == call.strides = 2 \/ call.in_channels > call.out_channels
        IN  /\ blk.reduce = proj
            /\ proj => blk.shortcut =
                  [type |-> "conv", in_channels |-> call.in_channels,
                   out_channels |-> call.out_channels, kernel_size |-> <<1, 1>>,
                   strides |-> call.strides, padding |-> <<0, 0>>,
                   bn_channels |-> call.out_channels]
            /\ ~proj => blk.shortcut = NoLayer
            /\ \A k \in 1..Len(path) :
                  path[k] = (IF proj THEN "shortcut" ELSE "activ")

C5_Witness ==
    /\ pc = "block_done"
    /\ call.strides = 2
    /\ call.in_channels < call.out_channels
    /\ path = <<"shortcut">>

\* C6 as stated: the chain's widths are in -> in/d, in/d -> in/(2d),
\* in/(2d) -> in/(2d), in/(2d) -> in/(2d), in/(2d) -> out.
C6_Original ==
    pc \in BlockPcs =>
        LET in == call.in_channels
            d == reduction_den
        IN  /\ blk.conv1.in_channels = in
            /\ blk.conv1.out_channels = in \div d
            /\ blk.conv2.in_channels = in \div d
            /\ blk.conv2.out_channels = in \div (2 * d)
            /\ blk.conv3.in_channels = in \div (2 * d)
            /\ blk.conv3.out_channels = in \div (2 * d)
            /\ blk.conv4.in_channels = in \div (2 * d)
            /\ blk.conv4.out_channels = in \div (2 * d)
            /\ blk.conv5.in_channels = in \div (2 * d)
            /\ blk.conv5.out_channels = call.out_channels

\* C6 amended: the chain's widths are in -> in/d, in/d -> in/(2d),
\* in/(2d) -> in/d for the 1x3 unit, in/d -> in/d for the 3x1 unit and
\* in/d -> out for the final 1x1 unit (integer divisions).
C6_ChainWidths ==
    pc \in BlockPcs =>
        LET in == call.in_channels
            d == reduction_den
        IN  /\ blk.conv1.in_channels = in
            /\ blk.conv1.out_channels = in \div d
            /\ blk.conv2.in_channels = in \div d
            /\ blk.conv2.out_channels = in \div (2 * d)
            /\ blk.conv3.in_channels = in \div (2 * d)
            /\ blk.conv3.out_channels = in \div d
            /\ blk.conv3.kernel_size = <<1, 3>>
            /\ blk.conv4.in_channels = in \div d
            /\ blk.conv4.out_channels = in \div d
            /\ blk.conv4.kernel_size = <<3, 1>>
            /\ blk.conv5.in_channels = in \div d
            /\ blk.conv5.out_channels = call.out_channels
            /\ blk.conv5.kernel_size = <<1, 1>>

C6_Witness ==
    /\ pc = "block_done"
    /\ call.in_channels = 12
    /\ call.strides = 1
    /\ call.out_channels = 12
    /\ blk.conv3.out_channels = 6
    /\ blk.conv3.in_channels = 3

\* C7: in every built network the output channel count of each unit is the
\* input channel count its consumer declares: inside each block, stem into
\* the first block, block into block, stage into stage (the first block of
\* stage k+1 declares the truncated scaling of stage k's unscaled base), the
\* last block into the final ConvUnit and the final ConvUnit into the dense
\* layer.
C7_ChannelsChain ==
    pc \in BuiltPcs =>
        /\ \A n \in 1..(Len(Units) - 1) : UnitOut(Units[n]) = UnitIn(Units[n + 1])
        /\ \A n \in 1..Len(AllBlocks) :
            LET b == AllBlocks[n]
            IN  /\ b.conv1.out_channels = b.conv2.in_channels
                /\ b.conv2.out_channels = b.conv3.in_channels
                /\ b.conv3.out_channels = b.conv4.in_channels
                /\ b.conv4.out_channels = b.conv5.in_channels
                /\ b.reduce => /\ b.shortcut.in_channels = b.conv1.in_channels
                               /\ b.shortcut.out_channels = b.conv5.out_channels
        /\ \A k \in 1..3 :
            IsTruncated(BlockIn(StageBlocks(k + 1)[1]), ctor.width_x,
                        <<32, 64, 128, 256>>[k])
        /\ UnitOut(Units[Len(Units)]) = output[3].in_units

C7_Witness ==
    /\ pc = "built"
    /\ ctor.width_x = 7
    /\ ctor.blocks = <<2, 1, 2, 0>>
    /\ Len(Units) = 8

\* C8 as stated: stage i holds exactly per_stage_block_counts[i] blocks, for
\* every non-negative count; the first has the stage stride and maps the
\* scaled running channel count to the scaled base, the others have stride 1
\* and the scaled base as input and output.
C8_Original ==
    pc \in BuiltPcs =>
        \A k \in 1..4 :
            /\ Len(StageBlocks(k)) = ctor.blocks[k]
            /\ \A n \in 1..Len(StageBlocks(k)) :
                LET b == StageBlocks(k)[n]
                IN  /\ IsTruncated(BlockOut(b), ctor.width_x,
                                   <<32, 64, 128, 256>>[k])
                    /\ n = 1 => /\ BlockStride(b) = <<1, 2, 2, 2>>[k]
                                /\ IsTruncated(BlockIn(b), ctor.width_x,
                                               <<64, 32, 64, 128>>[k])
                    /\ n > 1 => /\ BlockStride(b) = 1
                                /\ BlockIn(b) = BlockOut(b)

\* C8 amended: stage i holds max(1, per_stage_block_counts[i]) blocks (one
\* block even for a count of 0); the first has the stage stride and maps the
\* scaled running channel count to the scaled base, the others have stride 1
\* and the scaled base as input and output.
C8_StageBlocks ==
    pc \in BuiltPcs =>
        \A k \in 1..4 :
            /\ Len(StageBlocks(k)) =
                  (IF ctor.blocks[k] >= 1 THEN ctor.blocks[k] ELSE 1)
            /\ \A n \in 1..Len(StageBlocks(k)) :
                LET b == StageBlocks(k)[n]
                IN  /\ IsTruncated(BlockOut(b), ctor.width_x,
                                   <<32, 64, 128, 256>>[k])
                    /\ n = 1 => /\ BlockStride(b) = <<1, 2, 2, 2>>[k]
                                /\ b.reduce => b.shortcut.strides = <<1, 2, 2, 2>>[k]
                                /\ IsTruncated(BlockIn(b), ctor.width_x,
                                               <<64, 32, 64, 128>>[k])
                    /\ n > 1 => /\ BlockStride(b) = 1
                                /\ BlockIn(b) = BlockOut(b)

C8_Witness ==
    /\ pc = "built"
    /\ ctor.blocks = <<0, 2, 1, 0>>
    /\ Len(StageBlocks(1)) = 1
    /\ Len(StageBlocks(2)) = 2
    /\ Len(StageBlocks(4)) = 1

\* C9 as stated: every scaled channel count is round(width_multiplier x base):
\* stem output (base 64), each stage's output (its base), the final ConvUnit
\* output and the dense input (base 128).
C9_Original ==
    pc \in BuiltPcs =>
        /\ features[1].out_channels = RoundScale(ctor.width_x, 64)
        /\ \A k \in 1..4 : \A n \in 1..Len(StageBlocks(k)) :
              BlockOut(StageBlocks(k)[n]) =
                  RoundScale(ctor.width_x, <<32, 64, 128, 256>>[k])
        /\ features[7].out_channels = RoundScale(ctor.width_x, 128)
        /\ output[3].in_units = RoundScale(ctor.width_x, 128)

\* C9 amended: every scaled channel count is the product width_multiplier x
\* base truncated to an integer (int(), not round()): stem output (base 64),
\* each stage's output (its base), the final ConvUnit output and the dense
\* input (base 128); for 1.0, 1.5 and 2.0 the product is an integer and the
\* two agree.
C9_TruncatedScaling ==
    pc \in BuiltPcs =>
        /\ IsTruncated(features[1].out_channels, ctor.width_x, 64)
        /\ \A k \in 1..4 : \A n \in 1..Len(StageBlocks(k)) :
              IsTruncated(BlockOut(StageBlocks(k)[n]), ctor.width_x,
                          <<32, 64, 128, 256>>[k])
        /\ IsTruncated(features[7].out_channels, ctor.width_x, 128)
        /\ IsTruncated(output[3].in_units, ctor.width_x, 128)
        /\ ctor.width_x \in {Scale_1_0, Scale_1_5, Scale_2_0} =>
              /\ features[1].out_channels * WidthDen = ctor.width_x * 64
              /\ output[3].in_units * WidthDen = ctor.width_x * 128

C9_Witness ==
    /\ pc = "built"
    /\ ctor.width_x = 3
    /\ features[1].out_channels = 19
    /\ BlockOut(StageBlocks(1)[1]) = 9
    /\ output[3].in_units = 38

\* C10: every block of a network that takes the identity shortcut has
\* in_channels = out_channels, no stride-1 block with in_channels <
\* out_channels is ever constructed, and every residual addition on the
\* identity branch adds equal shapes.
C10_IdentityShortcutEqualWidths ==
    LET BlockOk(b) ==
            /\ ~b.reduce => BlockIn(b) = BlockOut(b)
            /\ ~(BlockStride(b) = 1 /\ BlockIn(b) < BlockOut(b))
    IN  /\ \A n \in 1..Len(stage) : BlockOk(stage[n])
        /\ \A k \in 1..Len(features) :
              features[k].type = "stage" =>
                  \A n \in 1..Len(features[k].blocks) :
                      BlockOk(features[k].blocks[n])
        /\ pc \in {"features", "output", "done", "failed"} =>
              \A k \in 1..Len(adds) :
                  path[k] = "activ" => adds[k][1] = adds[k][2]

C10_Witness ==
    /\ pc = "done"
    /\ ctor.width_x = 13
    /\ ctor.blocks = <<2, 2, 2, 2>>
    /\ Len(adds) = 8
    /\ path[2] = "activ"
    /\ path[8] = "activ"

====
